---- MODULE Spec2Model ----
(***************************************************************************)
(* Model of harp_parser.py: HarpParser.to_list and PayloadLookup.          *)
(* Byte buffers are sequences of 0..255; Python's 0-based indexing and     *)
(* clamped slicing are kept by the helpers At and Slice.  Python           *)
(* exceptions are modelled by their class names in the variable exc.      *)
(* Timestamps are kept in whole microseconds (32e-6 s = 32 us per tick),   *)
(* the NaN marker is the integer NAN.                                      *)
(***************************************************************************)
EXTENDS Integers, Sequences, FiniteSets, TLC

\* file: contents of the file at filepath (read by __read_data)
\* pc: "idle" before the call of to_list, "loop" in its while loop,
\*     "returned" after line 178, "raised" when an exception left the call
\* exc: class of that exception, "" when there is none
\* data .. processed_data: the arguments and locals of to_list
\* cache: what lru_cache holds for get_payload_string
\* frames: history of the passes of the loop (start, end, slice, exception,
\*     row appended), kept to state properties of the scan
VARIABLES file, pc, exc, data, processRead, processWrite, processEvent,
          types_to_process, message_start, message_end, next_message_start,
          processed_data, cache, frames

vars == <<file, pc, exc, data, processRead, processWrite, processEvent,
          types_to_process, message_start, message_end, next_message_start,
          processed_data, cache, frames>>

\* ---------------------------------------------------------------- bounds
MaxLen == 5
MaxFrames == 3

\* ------------------------------------------------------- python helpers
Min(a, b) == IF a < b THEN a ELSE b

\* d[i] with a 0-based index
At(d, i) == d[i + 1]

\* d[a:b] for 0 <= a, clamped at the end of d as Python slices are
Slice(d, a, b) == SubSeq(d, a + 1, Min(b, Len(d)))

\* d[a:] for 0 <= a
SliceFrom(d, a) == SubSeq(d, a + 1, Len(d))

\* c * n for a one-character string c: empty when n <= 0
Rep(c, n) == [i \in 1..n |-> c]

\* ------------------------------------------------------------ constants
HAS_TIMESTAMP == 16
SIZE_MASK == 15
\* 32e-6 seconds, in microseconds (a second is 1000000 of them)
MICROSECOND_TO_SECOND == 32
NAN == -1

\* x & 0x10, x & 0x0F, x & 0xC0 for a byte x
AndHasTimestamp(x) == ((x \div HAS_TIMESTAMP) % 2) * HAS_TIMESTAMP
AndSizeMask(x) == x % (SIZE_MASK + 1)
AndClassMask(x) == (x \div 64) * 64

\* ---------------------------------------------------------- PayloadLookup
DATA_CHARS ==
  [k \in {1, 129, 2, 130, 4, 132, 8, 136, 68} |->
     CASE k = 1   -> "B"
       [] k = 129 -> "b"
       [] k = 2   -> "H"
       [] k = 130 -> "h"
       [] k = 4   -> "I"
       [] k = 132 -> "i"
       [] k = 8   -> "Q"
       [] k = 136 -> "q"
       [] k = 68  -> "f"]

\* key used by __get_data_char
DataCharKey(payload) == AndClassMask(payload) + AndSizeMask(payload)

\* __get_data_char: the dictionary lookup raises KeyError on a missing key
HasDataChar(payload) == DataCharKey(payload) \in DOMAIN DATA_CHARS
GetDataChar(payload) == DATA_CHARS[DataCharKey(payload)]

\* get_payload_string: the format after '<', one character per item
GetPayloadString(has_timestamp, count, payload) ==
  IF has_timestamp # 0
    THEN <<"I", "H">> \o Rep(GetDataChar(payload), count)
    ELSE Rep(GetDataChar(payload), count)

\* ------------------------------------------------------------ struct
\* standard sizes of the format characters under '<'
CharSize(c) ==
  CASE c \in {"B", "b"} -> 1
    [] c \in {"H", "h"} -> 2
    [] c \in {"I", "i", "f"} -> 4
    [] c \in {"Q", "q"} -> 8

RECURSIVE CalcSize(_)
CalcSize(fmt) == IF fmt = <<>> THEN 0 ELSE CharSize(Head(fmt)) + CalcSize(Tail(fmt))

\* little-endian unsigned value of a byte string
RECURSIVE Unsigned(_)
Unsigned(bs) == IF bs = <<>> THEN 0 ELSE Head(bs) + 256 * Unsigned(Tail(bs))

\* little-endian two's complement value of a byte string
Signed(bs) ==
  IF bs[Len(bs)] >= 128
    THEN 0 - Unsigned([i \in 1..Len(bs) |-> 255 - bs[i]]) - 1
    ELSE Unsigned(bs)

\* IEEE 754 binary32 fields of 4 little-endian bytes
Float32(bs) ==
  [sign |-> bs[4] \div 128,
   exponent |-> (bs[4] % 128) * 2 + (bs[3] \div 128),
   mantissa |-> (bs[3] % 128) * 65536 + bs[2] * 256 + bs[1]]

UnpackOne(c, bs) ==
  CASE c \in {"B", "H", "I", "Q"} -> Unsigned(bs)
    [] c \in {"b", "h", "i", "q"} -> Signed(bs)
    [] c = "f" -> Float32(bs)

\* struct.unpack raises struct.error unless the buffer has exactly calcsize bytes
UnpackOk(fmt, buffer) == Len(buffer) = CalcSize(fmt)

RECURSIVE Unpack(_, _)
Unpack(fmt, buffer) ==
  IF fmt = <<>> THEN <<>>
  ELSE <<UnpackOne(Head(fmt), SubSeq(buffer, 1, CharSize(Head(fmt))))>>
       \o Unpack(Tail(fmt), SliceFrom(buffer, CharSize(Head(fmt))))

\* ------------------------------------------------------------ HarpParser
\* __unpack_message_types_to_process: the return statement sits inside the
\* processEvent branch, so the method returns None when processEvent is false
UnpackMessageTypesToProcess(pRead, pWrite, pEvent) ==
  LET t1 == IF pRead THEN <<1>> ELSE <<>>
      t2 == IF pWrite THEN Append(t1, 2) ELSE t1
  IN IF pEvent
       THEN [is_none |-> FALSE, items |-> Append(t2, 3)]
       ELSE [is_none |-> TRUE, items |-> <<>>]

Items(types) == {types.items[i] : i \in 1..Len(types.items)}

EOF == Len(data)

\* line 143
MessageEnd(d, start) == start + At(d, start + 1) + 1
\* the cursor left on the trailing byte instead of after it
NextMessageStartNoSkip(end) == end
\* line 144
NextMessageStart(end) == end + 1
\* line 146
Message(d, start, end) == Slice(d, start, end)
\* the payload without the last byte of the slice
PayloadDropTrailing(message) == SubSeq(message, 6, Len(message) - 1)
\* line 157
Payload(message) == SliceFrom(message, 5)
\* lines 159-160
PayloadLength(payload, payload_type) ==
  (Len(payload) - (IF AndHasTimestamp(payload_type) # 0 THEN 6 ELSE 0))
     \div AndSizeMask(payload_type)
\* the tick counter taken for a count of microseconds
TimestampMicros(seconds, microseconds) ==
  seconds * 1000000 + microseconds
\* lines 167-170
Timestamp(seconds, microseconds) ==
  seconds * 1000000 + microseconds * MICROSECOND_TO_SECOND
\* the tick counter left among the elements
RecordKeepTicks(message_type, message_address, payload_has_timestamp, unpacked_data) ==
  IF payload_has_timestamp # 0
    THEN <<message_type, message_address,
           Timestamp(unpacked_data[1], unpacked_data[2])>>
         \o SliceFrom(unpacked_data, 1)
    ELSE <<message_type, message_address, NAN>> \o unpacked_data
\* lines 166-176
Record(message_type, message_address, payload_has_timestamp, unpacked_data) ==
  IF payload_has_timestamp # 0
    THEN <<message_type, message_address,
           Timestamp(unpacked_data[1], unpacked_data[2])>>
         \o SliceFrom(unpacked_data, 2)
    ELSE <<message_type, message_address, NAN>> \o unpacked_data
\* rows inserted at the front of the list
PrependRecord(list, rec) == <<rec>> \o list
\* processed_data.append
AppendRecord(list, rec) == Append(list, rec)

\* The body of one pass of the while loop, lines 142-176, for the frame at
\* start: which exception it raises (or ""), and what it leaves behind.
Iteration(d, types, start) ==
  IF start + 1 >= Len(d)
    THEN [exc |-> "IndexError", line |-> 143]
  ELSE
  LET end == MessageEnd(d, start)
      message == Message(d, start, end)
      message_type == At(message, 0)
  IN
  IF types.is_none
    THEN [exc |-> "TypeError", line |-> 149, end |-> end, message |-> message]
  ELSE IF message_type \notin Items(types)
    THEN [exc |-> "", line |-> 149, end |-> end, message |-> message,
          appended |-> FALSE]
  ELSE IF Len(message) <= 2
    THEN [exc |-> "IndexError", line |-> 152, end |-> end, message |-> message]
  ELSE IF Len(message) <= 4
    THEN [exc |-> "IndexError", line |-> 156, end |-> end, message |-> message]
  ELSE
  LET message_address == At(message, 2)
      payload_type == At(message, 4)
      payload == Payload(message)
      payload_has_timestamp == AndHasTimestamp(payload_type)
  IN
  IF AndSizeMask(payload_type) = 0
    THEN [exc |-> "ZeroDivisionError", line |-> 160, end |-> end,
          message |-> message]
  ELSE
  LET payload_length == PayloadLength(payload, payload_type)
  IN
  IF ~HasDataChar(payload_type)
    THEN [exc |-> "KeyError", line |-> 59, end |-> end, message |-> message]
  ELSE
  LET format == GetPayloadString(payload_has_timestamp, payload_length,
                                 payload_type)
      entry == [has_timestamp |-> payload_has_timestamp,
                count |-> payload_length, payload |-> payload_type,
                format |-> format]
  IN
  IF ~UnpackOk(format, payload)
    THEN [exc |-> "struct.error", line |-> 164, end |-> end,
          message |-> message, entry |-> entry]
  ELSE
    [exc |-> "", line |-> 176, end |-> end, message |-> message,
     appended |-> TRUE, entry |-> entry,
     rec |-> Record(message_type, message_address, payload_has_timestamp,
                    Unpack(format, payload))]

\* ------------------------------------------------------------ input files
\* A frame as the devices write it: five header bytes, the payload and one
\* trailing byte; the length byte makes the slice of line 146 end just
\* before the trailing byte.
Frame(message_type, address, payload_type, payload, trailing) ==
  <<message_type, Len(payload) + 4, address, 0, payload_type>>
    \o payload \o <<trailing>>

\* every byte string of at most MaxLen bytes over a small alphabet
ArbBytes == {0, 1, 3, 4, 5}
ArbFiles == UNION {[1..n -> ArbBytes] : n \in 0..MaxLen}

\* sample frames: read, write, event and unclassified messages, well formed,
\* with a payload that does not divide, with a type byte outside DATA_CHARS,
\* with a zero width nibble, with a timestamp and with a reserved bit set
FramePool ==
  << Frame(1, 5, 1, <<42>>, 48),
     Frame(2, 7, 2, <<1, 2>>, 14),
     Frame(3, 9, 17, <<1, 0, 0, 0, 2, 0, 7>>, 50),
     Frame(4, 1, 72, <<9>>, 91),
     Frame(1, 6, 2, <<1>>, 15),
     Frame(3, 2, 72, <<9>>, 91),
     Frame(2, 3, 0, <<1>>, 11),
     Frame(3, 8, 1, <<>>, 16),
     Frame(2, 4, 33, <<7>>, 51),
     Frame(1, 10, 17, <<1, 2>>, 35) >>

RECURSIVE Concat(_)
Concat(fs) == IF fs = <<>> THEN <<>> ELSE Head(fs) \o Concat(Tail(fs))

\* one to MaxFrames sample frames back to back
FramedFiles ==
  {Concat([i \in DOMAIN ix |-> FramePool[ix[i]]]) :
     ix \in UNION {[1..n -> 1..Len(FramePool)] : n \in 1..MaxFrames}}

\* an event frame for each payload type and payload of interest
TypedPayloads ==
  { <<1, <<42, 0, 255>>>>, <<129, <<255, 128, 127>>>>,
    <<2, <<1, 2, 254, 255>>>>, <<130, <<254, 255, 1, 0>>>>,
    <<4, <<1, 2, 3, 4>>>>, <<132, <<254, 255, 255, 255>>>>,
    <<8, <<1, 2, 3, 4, 0, 0, 0, 0>>>>,
    <<136, <<253, 255, 255, 255, 255, 255, 255, 255>>>>,
    <<68, <<0, 0, 128, 63>>>>, <<68, <<0, 0, 192, 191, 1, 2, 3, 4>>>>,
    <<4, <<1, 2, 3>>>>, <<8, <<1, 2, 3, 4>>>>, <<68, <<1, 2, 3, 4, 5>>>>,
    <<72, <<1, 2, 3, 4, 5, 6, 7, 8>>>>, <<72, <<>>>>, <<65, <<1>>>>,
    <<193, <<1>>>>, <<3, <<1, 2, 3>>>>, <<64, <<1>>>>, <<16, <<1, 2, 3, 4, 5, 6>>>>,
    <<49, <<1, 0, 0, 0, 1, 0, 9>>>>, <<20, <<1, 0, 0, 0, 1, 0, 9, 0, 0, 0>>>>,
    <<84, <<2, 0, 0, 0, 3, 0, 0, 0, 128, 63>>>>,
    <<88, <<2, 0, 0, 0, 3, 0, 1, 2, 3, 4, 5, 6, 7, 8>>>>,
    <<18, <<1, 0, 0, 0, 1, 0, 9>>>>, <<17, <<1, 0, 0, 0, 1, 0>>>>,
    <<17, <<1, 0, 0>>>>, <<20, <<1, 2>>>> }

TypedFiles ==
  {Frame(mt, 11, tp[1], tp[2], 99) : mt \in {1, 3}, tp \in TypedPayloads}

\* timestamped event frames over a range of seconds and tick counters
TimestampFiles ==
  {Frame(3, 12, pt, <<s0, s1, 0, 0, t0, t1>> \o (IF pt = 17 THEN <<7>> ELSE <<7, 1>>), 0) :
     pt \in {17, 18}, s0 \in {0, 1, 255}, s1 \in {0, 3},
     t0 \in {0, 1, 255}, t1 \in {0, 255}}

\* the worked example of the documentation, for several trailing bytes
ExampleFile(chksum) == <<1, 7, 5, 0, 1, 42, 0, chksum>>
ExampleFiles == {ExampleFile(c) : c \in {0, 56, 255}}

Files == ArbFiles \cup FramedFiles \cup TypedFiles \cup TimestampFiles
           \cup ExampleFiles

\* ------------------------------------------------------------ state machine
NoTypes == [is_none |-> FALSE, items |-> <<>>]

Init ==
  /\ file \in Files
  /\ pc = "idle"
  /\ exc = ""
  /\ data = <<>>
  /\ processRead = TRUE
  /\ processWrite = TRUE
  /\ processEvent = TRUE
  /\ types_to_process = NoTypes
  /\ message_start = 0
  /\ message_end = 0
  /\ next_message_start = 0
  /\ processed_data = <<>>
  /\ cache = {}
  /\ frames = <<>>

\* to_list is called: lines 128-138
Call(pRead, pWrite, pEvent) ==
  /\ pc = "idle"
  /\ data' = file
  /\ processRead' = pRead
  /\ processWrite' = pWrite
  /\ processEvent' = pEvent
  /\ types_to_process' = UnpackMessageTypesToProcess(pRead, pWrite, pEvent)
  /\ message_start' = 0
  /\ message_end' = 0
  /\ next_message_start' = 0
  /\ processed_data' = <<>>
  /\ pc' = "loop"
  /\ UNCHANGED <<file, exc, cache, frames>>

Current == Iteration(data, types_to_process, next_message_start)

\* what one pass of the loop leaves in the history of scanned frames
Scanned(it) ==
  [start |-> next_message_start,
   end |-> IF it.line = 143 THEN -1 ELSE it.end,
   message |-> IF it.line = 143 THEN <<>> ELSE it.message,
   exc |-> it.exc,
   rec |-> IF it.line = 176 THEN it.rec ELSE <<>>]

\* get_payload_string is memoised by lru_cache; a raising call stores nothing
Cached(it) == IF it.line \in {164, 176} THEN cache \cup {it.entry} ELSE cache

\* a pass of the loop that raises: the exception leaves to_list
IterateRaise ==
  /\ pc = "loop"
  /\ next_message_start < EOF
  /\ Current.exc # ""
  /\ message_start' = next_message_start
  /\ IF Current.line = 143
       THEN UNCHANGED <<message_end, next_message_start>>
       ELSE /\ message_end' = Current.end
            /\ next_message_start' = NextMessageStart(Current.end)
  /\ exc' = Current.exc
  /\ pc' = "raised"
  /\ cache' = Cached(Current)
  /\ frames' = Append(frames, Scanned(Current))
  /\ UNCHANGED <<file, data, processRead, processWrite, processEvent,
                 types_to_process, processed_data>>

\* a pass of the loop over a message whose type is not in types_to_process
IterateSkip ==
  /\ pc = "loop"
  /\ next_message_start < EOF
  /\ Current.exc = ""
  /\ ~Current.appended
  /\ message_start' = next_message_start
  /\ message_end' = Current.end
  /\ next_message_start' = NextMessageStart(Current.end)
  /\ frames' = Append(frames, Scanned(Current))
  /\ UNCHANGED <<file, pc, exc, data, processRead, processWrite, processEvent,
                 types_to_process, processed_data, cache>>

\* a pass of the loop that appends a row to processed_data
IterateAppend ==
  /\ pc = "loop"
  /\ next_message_start < EOF
  /\ Current.exc = ""
  /\ Current.appended
  /\ message_start' = next_message_start
  /\ message_end' = Current.end
  /\ next_message_start' = NextMessageStart(Current.end)
  /\ processed_data' = AppendRecord(processed_data, Current.rec)
  /\ cache' = Cached(Current)
  /\ frames' = Append(frames, Scanned(Current))
  /\ UNCHANGED <<file, pc, exc, data, processRead, processWrite, processEvent,
                 types_to_process>>

\* the loop condition fails and to_list returns processed_data: line 178
Return ==
  /\ pc = "loop"
  /\ ~(next_message_start < EOF)
  /\ pc' = "returned"
  /\ UNCHANGED <<file, exc, data, processRead, processWrite, processEvent,
                 types_to_process, message_start, message_end,
                 next_message_start, processed_data, cache, frames>>

Next ==
  \/ \E pRead \in BOOLEAN, pWrite \in BOOLEAN, pEvent \in BOOLEAN :
       Call(pRead, pWrite, pEvent)
  \/ IterateRaise
  \/ IterateSkip
  \/ IterateAppend
  \/ Return

Spec == Init /\ [][Next]_vars

TypeOK ==
  /\ pc \in {"idle", "loop", "returned", "raised"}
  /\ exc \in {"", "IndexError", "TypeError", "ZeroDivisionError", "KeyError",
              "struct.error"}
  /\ (pc = "raised") <=> (exc # "")

\* ------------------------------------------------------------ properties
\* the categories the caller selected
SelectedSet ==
  (IF processRead THEN {1} ELSE {}) \cup (IF processWrite THEN {2} ELSE {})
    \cup (IF processEvent THEN {3} ELSE {})

AllIncluded == processRead /\ processWrite /\ processEvent

\* a scanned frame whose type byte and length byte could be read
Readable(f) == f.end # -1
FrameType(f) == At(f.message, 0)
FrameLength(f) == At(data, f.start + 1)

\* the scanned frames whose message type is selected, in scan order
IsRetained(f) == Readable(f) /\ FrameType(f) \in SelectedSet
Retained == SelectSeq(frames, IsRetained)

\* the scanned frames that produced a record, in scan order
IsEmitting(f) == Len(f.rec) > 0
Emitting == SelectSeq(frames, IsEmitting)

\* payload type byte, payload and timestamp prefix size of a frame that has
\* a payload type byte
HasTypeByte(f) == Readable(f) /\ Len(f.message) >= 5
TypeByte(f) == At(f.message, 4)
FramePayload(f) == SliceFrom(f.message, 5)
Bit4(f) == (TypeByte(f) \div 16) % 2 = 1
Prefix(f) == IF Bit4(f) THEN 6 ELSE 0
MaskedKey(f) == (TypeByte(f) \div 64) * 64 + (TypeByte(f) % 16)
TableKeys == {1, 2, 4, 8, 129, 130, 132, 136, 68}
TableWidth(f) == CharSize(DATA_CHARS[MaskedKey(f)])

\* C1: for each of the 8 flag combinations the filter used by to_list is
\* exactly the selected set, the call never fails for want of a filter, and a
\* call that returns has one record per frame of a selected type
C1_FilterIsSelectedSet ==
  pc # "idle" =>
    /\ ~types_to_process.is_none
    /\ Items(types_to_process) = SelectedSet
    /\ exc # "TypeError"
    /\ pc = "returned" => Len(processed_data) = Len(Retained)

\* C2: the output of a call that returns is in frame order: the i-th record
\* is the record of the i-th retained frame, none reordered, duplicated or
\* dropped; frames of types 1, 2, 3 decoded without write give the type-1
\* record followed by the type-3 record
C2_FrameOrder ==
  pc = "returned" =>
    /\ Len(processed_data) = Len(Retained)
    /\ \A i \in 1..Len(processed_data) : processed_data[i] = Retained[i].rec
    /\ ( /\ [i \in 1..Len(frames) |-> FrameType(frames[i])] = <<1, 2, 3>>
         /\ processRead /\ ~processWrite /\ processEvent )
       => [i \in 1..Len(processed_data) |-> processed_data[i][1]] = <<1, 3>>

C2_Witness ==
  /\ pc = "returned"
  /\ Len(frames) = 3
  /\ [i \in 1..Len(frames) |-> FrameType(frames[i])] = <<1, 2, 3>>
  /\ processRead /\ ~processWrite /\ processEvent
  /\ Len(processed_data) = 2
  /\ processed_data[1][2] # processed_data[2][2]

\* C3 (as stated): the example buffer decodes to one record
\* [1, 5, unavailable, 42] with exactly one element
C3_ExampleOneElement ==
  (pc = "returned" /\ AllIncluded /\ data \in ExampleFiles)
    => processed_data = << <<1, 5, NAN, 42>> >>

\* C3 (amended): the example buffer decodes to one record
\* [1, 5, unavailable, 42, 0, CHKSUM]: the three bytes from offset 5 to the
\* end of the 8-byte frame slice are each a width-1 element
C3_ExampleAsCoded ==
  \A c \in 0..255 :
    (pc = "returned" /\ AllIncluded /\ data = ExampleFile(c))
      => processed_data = << <<1, 5, NAN, 42, 0, c>> >>

C3_Witness ==
  /\ pc = "returned" /\ AllIncluded /\ data = ExampleFile(56)
  /\ Len(processed_data) = 1

\* C4: a frame whose boundary arithmetic runs past the end of the buffer
\* (length byte unreadable, or frame_start + length + 1 > buffer length) makes
\* the call fail with the truncated-frame error (IndexError) and never yields
\* a record
C4_TruncatedFrameRaises ==
  \A i \in 1..Len(frames) :
    (frames[i].end = -1 \/ frames[i].end > EOF)
      => /\ frames[i].exc = "IndexError"
         /\ ~IsEmitting(frames[i])
         /\ pc = "raised"

\* C5: a retained frame of a known payload type whose payload length less the
\* timestamp prefix is not a multiple of the element width makes the call
\* fail with the malformed-payload error (struct.error): no record for the
\* frame and no returned result
C5_MalformedPayloadRaises ==
  \A i \in 1..Len(frames) :
    ( /\ IsRetained(frames[i]) /\ HasTypeByte(frames[i])
      /\ MaskedKey(frames[i]) \in TableKeys
      /\ (Len(FramePayload(frames[i])) - Prefix(frames[i]))
            % (TypeByte(frames[i]) % 16) # 0 )
      => /\ frames[i].exc = "struct.error"
         /\ ~IsEmitting(frames[i])
         /\ pc = "raised"

\* C6: a retained frame whose masked payload type key is not one of the nine
\* table keys makes the call fail with the unknown-payload-type error
\* (KeyError), whatever its payload length and width nibble
C6_UnknownTypeRaises ==
  \A i \in 1..Len(frames) :
    ( /\ IsRetained(frames[i]) /\ HasTypeByte(frames[i])
      /\ MaskedKey(frames[i]) \notin TableKeys )
      => /\ frames[i].exc = "KeyError"
         /\ pc = "raised"

\* C7: every emitted record has (len(payload) - p) / w elements after its
\* three leading fields, the division is exact, and w is the low nibble of
\* every key of the table
C7_ElementCount ==
  /\ \A k \in DOMAIN DATA_CHARS : CharSize(DATA_CHARS[k]) = k % 16
  /\ Len(processed_data) = Len(Emitting)
  /\ \A i \in 1..Len(processed_data) :
       LET f == Emitting[i]
           n == Len(FramePayload(f)) - Prefix(f)
       IN /\ MaskedKey(f) \in TableKeys
          /\ n % TableWidth(f) = 0
          /\ Len(processed_data[i]) - 3 = n \div TableWidth(f)

C7_Witness ==
  \E i \in 1..Len(processed_data) :
    /\ Bit4(Emitting[i])
    /\ TableWidth(Emitting[i]) = 4
    /\ Len(processed_data[i]) = 4

\* C8: the timestamp of every emitted record is decided by bit 4 of the
\* payload type byte: when set it is seconds * 1000000 + ticks * 32
\* microseconds, seconds and ticks being the little-endian uint32 and uint16
\* at the head of the payload, and the elements are unpacked from the bytes
\* after them; when clear it is the unavailable marker
C8_Timestamp ==
  /\ Len(processed_data) = Len(Emitting)
  /\ \A i \in 1..Len(processed_data) :
       LET f == Emitting[i]
           b == FramePayload(f)
           rec == processed_data[i]
       IN IF Bit4(f)
            THEN /\ rec[3] = (b[1] + 256 * b[2] + 65536 * b[3] + 16777216 * b[4])
                               * 1000000 + (b[5] + 256 * b[6]) * 32
                 /\ SliceFrom(rec, 3) =
                      Unpack(Rep(DATA_CHARS[MaskedKey(f)], Len(rec) - 3),
                             SliceFrom(b, 6))
            ELSE rec[3] = NAN

C8_Witness ==
  \E i \in 1..Len(processed_data) :
    /\ Bit4(Emitting[i])
    /\ processed_data[i][3] = 1023 * 1000000 + 65535 * 32
    /\ Len(processed_data[i]) = 4

\* C9: a frame whose message type is not selected is skipped: it raises
\* nothing, appends nothing, and the scan resumes at
\* frame_start + length_field + 2
C9_UnselectedSkipped ==
  \A i \in 1..Len(frames) :
    (Readable(frames[i]) /\ FrameType(frames[i]) \notin SelectedSet)
      => /\ frames[i].exc = ""
         /\ ~IsEmitting(frames[i])
         /\ IF i < Len(frames)
              THEN frames[i + 1].start = frames[i].start + FrameLength(frames[i]) + 2
              ELSE next_message_start = frames[i].start + FrameLength(frames[i]) + 2

\* C10: the scan terminates: every pass starts inside the buffer, ends its
\* frame at frame_start + buffer[frame_start + 1] + 1 and moves the cursor one
\* byte further, so the cursor grows by length_field + 2 >= 2 per pass, there
\* are at most ceil(len(buffer) / 2) passes, the ranges are disjoint and
\* increasing with one byte between them, and the loop is left normally
\* exactly when the cursor is at or past the end
C10_ScanTerminates ==
  /\ \A i \in 1..Len(frames) :
       /\ frames[i].start < EOF
       /\ Readable(frames[i])
            => frames[i].end = frames[i].start + FrameLength(frames[i]) + 1
       /\ i = 1 => frames[i].start = 0
       /\ i < Len(frames) =>
            /\ Readable(frames[i])
            /\ frames[i].start < frames[i].end
            /\ frames[i + 1].start = frames[i].end + 1
            /\ frames[i + 1].start - frames[i].start = FrameLength(frames[i]) + 2
            /\ frames[i + 1].start - frames[i].start >= 2
  /\ 2 * Len(frames) <= EOF + 1
  /\ pc = "loop" /\ frames # <<>>
       => next_message_start = frames[Len(frames)].end + 1
  /\ pc = "loop" => (ENABLED Return <=> next_message_start >= EOF)
  /\ pc = "returned" => next_message_start >= EOF

C10_Witness ==
  /\ pc = "returned"
  /\ Len(frames) = 2
  /\ 2 * Len(frames) = EOF
  /\ frames[2].end > frames[2].start + 1

====
